---- MODULE Spec2Model ----
(***************************************************************************)
(* A model of info_dict: the InfoDict base class, whose entries are        *)
(* populated at construction from tagged methods (info_dict.py), and the   *)
(* helpers it is built on, FrozenMeta and ConcatableDict (helpers.py).     *)
(*                                                                         *)
(* Python objects are modelled by value.  A dictionary is a function whose *)
(* domain is its key set.  A value that a tagged method returns is a       *)
(* record [val, safe]: val is the payload and safe tells whether           *)
(* django's mark_safe has been applied to it.                              *)
(***************************************************************************)
EXTENDS Integers, FiniteSets, Sequences, TLC

\* ------------------------------------------------------------------ bounds
\* The values a tagged method returns are 1..MaxVal.
MaxVal == 2
\* evaluate() is called at most MaxEvals times on a constructed instance.
MaxEvals == 1

Vals == 1..MaxVal
Keys == {"a", "b"}

\* ------------------------------------------------------------- dictionaries
EmptyDict == [k \in {} |-> 0]

\* dict.update(other): the entries of other replace and extend those of d.
Update(d, other) ==
  [k \in (DOMAIN d) \cup (DOMAIN other) |->
     IF k \in DOMAIN other THEN other[k] ELSE d[k]]

\* d[key] = value
SetItem(d, key, value) ==
  [k \in (DOMAIN d) \cup {key} |-> IF k = key THEN value ELSE d[k]]

Obj(x) == [val |-> x, safe |-> FALSE]
Objs == {Obj(x) : x \in Vals}

\* django.utils.safestring.mark_safe, an external collaborator: it marks
\* the value as safe for unescaped output.
mark_safe(value) == [value EXCEPT !.safe = TRUE]

\* Every dictionary with keys among Keys and values among Objs.
Dicts == UNION {[S -> Objs] : S \in SUBSET Keys}

\* ------------------------------------------------------ tagged functions
\* ConcatOptions(exclude, include)
ConcatOptions(exclude, include) ==
  [kind |-> "ConcatOptions", exclude |-> exclude, include |-> include]

\* concat=None, the default of InfoDict.attribute
NoConcat == [kind |-> "None", exclude |-> {}, include |-> {}]

\* A true value for concat that is neither True nor a ConcatOptions
OtherConcat == [kind |-> "other", exclude |-> {}, include |-> {}]

\* InfoDictAttributeInfo(func, key, cache, predicate, concat, marksafe).
\* predicate is TRUE when a predicate function was given.
InfoDictAttributeInfo(key, cache, predicate, concat, marksafe) ==
  [key |-> key, cache |-> cache, predicate |-> predicate,
   concat |-> concat, marksafe |-> marksafe]

\* A function object as the registry sees it: the plain function found in
\* a class body (types.FunctionType), or the unbound method that getattr
\* on a class returns for it (types.UnboundMethodType).
\* owner is the class whose body defines the function, name its name there.
FunctionType(owner, name) == [owner |-> owner, name |-> name, im |-> "function"]
UnboundMethodType(owner, name) ==
  [owner |-> owner, name |-> name, im |-> "unbound"]

\* The tagged methods the classes of this model are built from.
Funcs == {"m1", "m2", "m3", "c1", "c2", "x1"}

\* What @InfoDict.attribute(...) attaches to each as info_attribute_options
\* (an unbound method forwards the attribute to its function).
\* m1, m2, m3 are simple items; c1 is a concat item that excludes a and b
\* and includes a again; c2 is tagged concat=True; x1 is tagged with a
\* concat that is no ConcatOptions.
info_attribute_options(func) ==
  CASE func.name = "m1" ->
         InfoDictAttributeInfo("a", TRUE, TRUE, NoConcat, FALSE)
    [] func.name = "m2" ->
         InfoDictAttributeInfo("b", FALSE, FALSE, NoConcat, TRUE)
    [] func.name = "m3" ->
         InfoDictAttributeInfo("a", FALSE, TRUE, NoConcat, FALSE)
    [] func.name = "c1" ->
         InfoDictAttributeInfo("", TRUE, TRUE,
                               ConcatOptions({"a", "b"}, {"a"}), FALSE)
    [] func.name = "c2" ->
         InfoDictAttributeInfo("", FALSE, FALSE,
                               ConcatOptions({}, {}), FALSE)
    [] func.name = "x1" ->
         InfoDictAttributeInfo("b", FALSE, FALSE, OtherConcat, FALSE)

\* hash(func): equal for equal function objects, and outside the keys that
\* simple items are registered under.
hash(func) == "hash:" \o func.im \o ":" \o func.owner \o "." \o func.name

\* --------------------------------------------------------- info store items
\* InfoDictAttributeInfo.get_instance: the ConcatInfoStoreItem or
\* InfoStoreItem wrapping func.
\* raised names the exception it ends with, "none" when it returns.
get_instance(func) ==
  LET opts == info_attribute_options(func)
  IN  IF opts.concat.kind = "ConcatOptions"
      THEN [raised |-> "none", func |-> func, concat |-> TRUE,
            include |-> opts.concat.include, exclude |-> opts.concat.exclude]
      ELSE IF opts.concat.kind = "other"
      THEN [raised |-> "TypeError", func |-> func, concat |-> TRUE,
            include |-> {}, exclude |-> {}]
      ELSE [raised |-> "none", func |-> func, concat |-> FALSE,
            include |-> {}, exclude |-> {}]

\* InfoStoreObjectBase.key, overridden by ConcatInfoStoreItem.key
ItemKey(item) ==
  IF item.concat THEN hash(item.func)
  ELSE info_attribute_options(item.func).key

ItemCache(item) == info_attribute_options(item.func).cache
ItemPredicate(item) == info_attribute_options(item.func).predicate
ItemMarksafe(item) == info_attribute_options(item.func).marksafe

\* isexcluded as it would be if include did not override exclude.
isexcludedIgnoringInclude(item, key) == key \in item.exclude

\* ConcatInfoStoreItem.isexcluded
isexcluded(item, key) == key \notin item.include /\ key \in item.exclude

\* ConcatInfoStoreItem.isincluded
isincluded(item, key) == ~isexcluded(item, key)

\* processvalue: returned is what self.func(instance) returned.  A simple
\* item passes it on; a concat item keeps the included keys of it.
processvalue(item, returned) ==
  IF item.concat
  THEN [key \in {k \in DOMAIN returned : isincluded(item, k)} |-> returned[key]]
  ELSE returned

\* InfoStoreObjectBase._get_and_process_value
get_and_process_value(item, returned) ==
  LET value == processvalue(item, returned)
  IN  IF ItemMarksafe(item) THEN mark_safe(value) ELSE value

\* ------------------------------------------------------------- InfoStore
\* InfoStore.__init__: no registered items
EmptyRegistry == [k \in {} |-> 0]

\* register as it would be if it did not look for the key first.
registerOverwriting(registered_items, func) ==
  LET info_item == get_instance(func)
  IN  IF info_item.raised # "none"
      THEN [raised |-> info_item.raised, registered_items |-> registered_items]
      ELSE [raised |-> "none",
            registered_items |->
              SetItem(registered_items, ItemKey(info_item), info_item)]

\* InfoStore.register on a registry: the registry it leaves, and the
\* exception it raises ("none" when it returns).
register(registered_items, func) ==
  LET info_item == get_instance(func)
  IN  IF info_item.raised # "none"
      THEN [raised |-> info_item.raised, registered_items |-> registered_items]
      ELSE IF ItemKey(info_item) \in DOMAIN registered_items
      THEN [raised |-> "ValueError", registered_items |-> registered_items]
      ELSE [raised |-> "none",
            registered_items |->
              SetItem(registered_items, ItemKey(info_item), info_item)]

\* ------------------------------------------------------------ metaclasses
\* A class is [bases, dct, info_store]: dct holds the names its body
\* defines and those its metaclass adds.

\* FrozenMeta.__new__ as it would be if it did not install the setter.
FrozenMeta_new_plain(dct) == dct

\* FrozenMeta.__new__: dct['__setattr__'] = mcs.setattr, then type.__new__
FrozenMeta_new(dct) == dct \cup {"__setattr__"}

\* InfoDictMeta.__new__: dct['info_store'] = InfoStore(), then
\* super(FrozenMeta, mcs).__new__, which is type.__new__: the method of
\* FrozenMeta is passed over.
InfoDictMeta_new(dct) == dct \cup {"info_store"}

\* The attributes a class can show, in the order of dir(): the setter, the
\* info store, the tagged methods and InfoDict.skip.  Only the tagged
\* methods carry info_attribute_options.
DirOrder ==
  <<"__setattr__", "c1", "c2", "info_store", "m1", "m2", "m3", "skip", "x1">>

\* hasattr(func, 'info_attribute_options') and the type test: of the
\* attributes of the model the tagged methods pass.
IsTagged(func) == func.name \in Funcs

\* class InfoDict itself: created by InfoDictMeta from a body that defines
\* skip (and untagged special methods).
InfoDictClass ==
  [bases |-> << >>, dct |-> InfoDictMeta_new({"skip"}),
   info_store |-> EmptyRegistry]

\* class InstanceInfoStore, created by FrozenMeta.  It is no InfoDict and
\* has no info store; the field is there to make it a class like the others.
InstanceInfoStoreClass ==
  [bases |-> << >>, dct |-> FrozenMeta_new({"evaluate"}),
   info_store |-> EmptyRegistry]

\* The class that defines name for klass: klass itself or, searching its
\* bases in order, the first that shows it; "" when none does.
RECURSIVE Definer(_, _, _)
RECURSIVE DefinerAmong(_, _, _)
Definer(classes_, klass, name) ==
  IF name \in classes_[klass].dct THEN klass
  ELSE DefinerAmong(classes_, classes_[klass].bases, name)

DefinerAmong(classes_, bases, name) ==
  IF bases = << >> THEN ""
  ELSE LET d == Definer(classes_, Head(bases), name)
       IN  IF d # "" THEN d ELSE DefinerAmong(classes_, Tail(bases), name)

\* [getattr(klass, key) for key in dir(klass)]: the unbound methods klass
\* shows, its own and the inherited ones.
ClassAttributesOf(classes_, klass) ==
  LET names == SelectSeq(DirOrder, LAMBDA n : Definer(classes_, klass, n) # "")
  IN  [i \in 1..Len(names) |->
         UnboundMethodType(Definer(classes_, klass, names[i]), names[i])]

\* InfoDictMeta._get_class_attributes(*klasses)
RECURSIVE get_class_attributes(_, _)
get_class_attributes(classes_, klasses) ==
  IF klasses = << >> THEN << >>
  ELSE ClassAttributesOf(classes_, Head(klasses))
         \o get_class_attributes(classes_, Tail(klasses))

\* The loop of InfoDictMeta.__init__ from position i of funcs on:
\* register every tagged function, stop at the first exception.
RECURSIVE RegisterFrom(_, _, _)
RegisterFrom(registered_items, funcs, i) ==
  IF i > Len(funcs) THEN [raised |-> "none", registered_items |-> registered_items]
  ELSE IF ~IsTagged(funcs[i]) THEN RegisterFrom(registered_items, funcs, i + 1)
  ELSE LET r == register(registered_items, funcs[i])
       IN  IF r.raised # "none" THEN r
           ELSE RegisterFrom(r.registered_items, funcs, i + 1)

\* InfoDictMeta.__new__ and __init__ for class name(bases) whose body
\* defines the functions of body, in the order dct.itervalues() gives:
\* the class has an InfoStore of its own, filled from the attributes of
\* the bases and then from the body.
InfoDictMeta(classes_, name, bases, body) ==
  LET own == [i \in 1..Len(body) |-> FunctionType(name, body[i])]
      r == RegisterFrom(EmptyRegistry,
                        get_class_attributes(classes_, bases) \o own, 1)
  IN  [raised |-> r.raised,
       klass |-> [bases |-> bases,
                  dct |-> InfoDictMeta_new({body[i] : i \in 1..Len(body)}),
                  info_store |-> r.registered_items]]

\* Every order in which the elements of S can come.
Orders(S) ==
  {s \in [1..Cardinality(S) -> S] : \A x \in S : \E i \in DOMAIN s : s[i] = x}

\* ------------------------------------------------------------------ state
VARIABLES
  classes,      \* class name -> [bases, dct, info_store]: the classes created
  phase,        \* instance -> "unborn", "init" (in __init__), "live", "failed"
  data,         \* instance -> the entries of the InfoDict instance
  cache,        \* instance -> its _info_item_cache attribute
  ev,           \* instance -> the evaluate() call running or last run on it
  evals,        \* instance -> evaluate() calls made after construction
  invocations,  \* instance -> key of a cached item -> calls of its method
  firstGet      \* instance -> key of a cached item -> the first return of
                \* getvalue: its value, whether the tagged method was
                \* called for it, and the calls of the method up to then

\* Objects and their attributes, for the freezing of FrozenMeta
VARIABLES
  objs,         \* object -> [cls, constructed, init_raised, attrs]
  lastSet       \* the last attribute assignment made from outside

\* Registration and class creation
VARIABLES
  lastCreate,   \* the last class statement executed
  lastReg,      \* the last call of InfoStore.register
  firstReg      \* class -> item key -> the first item registered under it

\* ConcatableDict arithmetic
VARIABLES
  dicta, dictb, \* the operands: [type, items]
  sum           \* the result of dicta + dictb

evalVars == <<phase, data, cache, ev, evals, invocations, firstGet>>
objVars == <<objs, lastSet>>
metaVars == <<lastCreate, lastReg, firstReg>>
dictVars == <<dicta, dictb, sum>>
vars == <<classes, evalVars, objVars, metaVars, dictVars>>

\* The class whose instances are constructed and evaluated.
K == "K"

Registry == classes[K].info_store

\* ---------------------------------------------------------------- getvalue
\* No _info_item_cache attribute yet
NoCacheStore == [present |-> FALSE, items |-> [f \in {} |-> 0]]

\* CacheOwner as it would be if the cache were kept in one place for all
\* instances (on the item, or on the class) and not on the instance.
CacheOwnerShared(instance) == 1

\* The object whose _info_item_cache attribute holds the cache used when
\* an item is evaluated for instance.
CacheOwner(instance) == instance

\* InfoStoreObjectBase._get_or_create_instance_cache, given the attribute
\* as the instance holds it.
get_or_create_instance_cache(store) ==
  IF store.present THEN store ELSE [present |-> TRUE, items |-> store.items]

\* What calling the tagged method can do: raise InfoStoreItemIgnoreError
\* (InfoDict.skip) or return a value, a dictionary for a concat item.
Skipped == [skip |-> TRUE, returned |-> Obj(1)]
Returned(x) == [skip |-> FALSE, returned |-> x]
MethodOutcomes(item) ==
  {Skipped} \cup {Returned(x) : x \in IF item.concat THEN Dicts ELSE Objs}

PredicateFailure == "InfoStoreItemPredicateFailure"
IgnoreError == "InfoStoreItemIgnoreError"

\* getvalue as it would be if the value were never put into the cache.
getvalueWithoutStore(item, store, p, m) ==
  IF ItemPredicate(item) /\ ~p
  THEN [raised |-> PredicateFailure, store |-> store, called |-> FALSE]
  ELSE LET cache_store == IF ItemCache(item)
                          THEN get_or_create_instance_cache(store)
                          ELSE store
       IN  IF ItemCache(item) /\ item.func \in DOMAIN cache_store.items
           THEN [raised |-> "none", value |-> cache_store.items[item.func],
                 store |-> cache_store, called |-> FALSE]
           ELSE IF m.skip
           THEN [raised |-> IgnoreError, store |-> cache_store,
                 called |-> TRUE]
           ELSE [raised |-> "none",
                 value |-> get_and_process_value(item, m.returned),
                 store |-> cache_store, called |-> TRUE]

\* getvalue as it would be if the cache were looked up before the
\* predicate is asked.
getvalueCacheFirst(item, store, p, m) ==
  LET cache_store == IF ItemCache(item)
                     THEN get_or_create_instance_cache(store)
                     ELSE store
  IN  IF ItemCache(item) /\ item.func \in DOMAIN cache_store.items
      THEN [raised |-> "none", value |-> cache_store.items[item.func],
            store |-> cache_store, called |-> FALSE]
      ELSE IF ItemPredicate(item) /\ ~p
      THEN [raised |-> PredicateFailure, store |-> cache_store,
            called |-> FALSE]
      ELSE IF m.skip
      THEN [raised |-> IgnoreError, store |-> cache_store, called |-> TRUE]
      ELSE LET value == get_and_process_value(item, m.returned)
           IN  [raised |-> "none", value |-> value,
                store |-> IF ItemCache(item)
                          THEN [cache_store EXCEPT !.items =
                                  SetItem(@, item.func, value)]
                          ELSE cache_store,
                called |-> TRUE]

\* InfoStoreObjectBase.getvalue for item with the cache attribute store,
\* when the predicate (if any) answers p and the tagged method (if called)
\* does m.  It yields the exception raised ("none" when it returns), the
\* value returned, the cache attribute it leaves, and whether the tagged
\* method was called.
getvalue(item, store, p, m) ==
  IF ItemPredicate(item) /\ ~p
  THEN [raised |-> PredicateFailure, store |-> store, called |-> FALSE]
  ELSE LET cache_store == IF ItemCache(item)
                          THEN get_or_create_instance_cache(store)
                          ELSE store
       IN  IF ItemCache(item) /\ item.func \in DOMAIN cache_store.items
           THEN [raised |-> "none", value |-> cache_store.items[item.func],
                 store |-> cache_store, called |-> FALSE]
           ELSE IF m.skip
           THEN [raised |-> IgnoreError, store |-> cache_store,
                 called |-> TRUE]
           ELSE LET value == get_and_process_value(item, m.returned)
                IN  [raised |-> "none", value |-> value,
                     store |-> IF ItemCache(item)
                               THEN [cache_store EXCEPT !.items =
                                       SetItem(@, item.func, value)]
                               ELSE cache_store,
                     called |-> TRUE]

\* ---------------------------------------------------------------- evaluate
\* InstanceInfoStore.validate_unique_keys: TRUE when it raises ValueError
validate_unique_keys(dict_a, dict_b) ==
  (DOMAIN dict_a) \cap (DOMAIN dict_b) # {}

\* Merge as it would be if a simple item did not replace an entry that
\* item_dict already holds under its key.
MergeKeepsEntry(item_dict, item_key, item_object, item_value) ==
  IF item_object.concat
  THEN IF validate_unique_keys(item_dict, item_value)
       THEN [raised |-> "ValueError", item_dict |-> item_dict]
       ELSE [raised |-> "none", item_dict |-> Update(item_dict, item_value)]
  ELSE [raised |-> "none",
        item_dict |-> IF item_key \in DOMAIN item_dict THEN item_dict
                      ELSE SetItem(item_dict, item_key, item_value)]

\* The else branch of the loop body of InstanceInfoStore.evaluate: what
\* item_dict becomes once item_value is in, and the exception raised.
Merge(item_dict, item_key, item_object, item_value) ==
  IF item_object.concat
  THEN IF validate_unique_keys(item_dict, item_value)
       THEN [raised |-> "ValueError", item_dict |-> item_dict]
       ELSE [raised |-> "none", item_dict |-> Update(item_dict, item_value)]
  ELSE [raised |-> "none",
        item_dict |-> SetItem(item_dict, item_key, item_value)]

\* An evaluate() call: pc is "run" inside the loop, "returned" or "raised"
\* once it has ended; ctor tells whether InfoDict.__init__ made the call
\* and args what the instance was constructed from;
\* todo holds the keys of the registered items the loop has yet to reach;
\* item_dict is the dictionary built so far.  The other fields record what
\* happened in this call: pred the predicate's answers, invoked the items
\* whose tagged method was called, ret what the method returned, got what
\* getvalue returned, origin the item that put each key into item_dict,
\* last the item the loop handled last.
NoEvaluate ==
  [pc |-> "idle", ctor |-> FALSE, args |-> EmptyDict, todo |-> {},
   item_dict |-> EmptyDict,
   pred |-> EmptyDict, invoked |-> {}, ret |-> EmptyDict, got |-> EmptyDict,
   origin |-> EmptyDict, last |-> ""]

StartEvaluate(registered_items, ctor, args) ==
  [NoEvaluate EXCEPT !.pc = "run", !.ctor = ctor, !.args = args,
                     !.todo = DOMAIN registered_items]

\* ----------------------------------------------------------------- actions
\* The dictionaries an instance is constructed from: InfoDict() and
\* InfoDict(a=1).
CtorArgs == {EmptyDict, [k \in {"a"} |-> Obj(1)]}

\* The class bodies of K: the classes that tag up to two of the methods
\* and that InfoDictMeta creates.
ClassBodies ==
  {S \in SUBSET Funcs :
     /\ Cardinality(S) <= 2
     /\ \E body \in Orders(S) :
          InfoDictMeta([c \in {"InfoDict"} |-> InfoDictClass], K,
                       <<"InfoDict">>, body).raised = "none"}

\* InfoDict.__init__ up to the call of evaluate: the dictionary is filled
\* from the arguments, self.info_store creates the InstanceInfoStore over
\* the registry of the class, and evaluate starts.
Construct(i) ==
  /\ phase[i] = "unborn"
  /\ \A j \in DOMAIN phase : j < i => phase[j] # "unborn"
  /\ \E args \in CtorArgs :
       /\ data' = [data EXCEPT ![i] = args]
       /\ ev' = [ev EXCEPT ![i] = StartEvaluate(Registry, TRUE, args)]
  /\ phase' = [phase EXCEPT ![i] = "init"]
  /\ UNCHANGED <<classes, cache, evals, invocations, firstGet>>
  /\ UNCHANGED <<objVars, metaVars, dictVars>>

\* instance.info_store.evaluate() on a constructed instance
Evaluate(i) ==
  /\ phase[i] = "live"
  /\ ev[i].pc \in {"returned", "raised"}
  /\ evals[i] < MaxEvals
  /\ evals' = [evals EXCEPT ![i] = @ + 1]
  /\ ev' = [ev EXCEPT ![i] = StartEvaluate(Registry, FALSE, EmptyDict)]
  /\ UNCHANGED <<classes, phase, data, cache, invocations, firstGet>>
  /\ UNCHANGED <<objVars, metaVars, dictVars>>

\* One turn of the loop of evaluate on instance i: getvalue of one
\* registered item, in whatever order the dictionary yields them, and the
\* merge of its value into item_dict.
EvaluateItem(i) ==
  /\ ev[i].pc = "run"
  /\ \E item_key \in ev[i].todo :
       LET item_object == Registry[item_key] IN
       \E p \in (IF ItemPredicate(item_object) THEN BOOLEAN ELSE {TRUE}) :
       \E m \in (IF getvalue(item_object, cache[CacheOwner(i)], p,
                              Skipped).called
                 THEN MethodOutcomes(item_object) ELSE {Skipped}) :
         LET owner == CacheOwner(i)
             g == getvalue(item_object, cache[owner], p, m)
             e0 == [ev[i] EXCEPT
                      !.todo = @ \ {item_key},
                      !.last = item_key,
                      !.pred = IF ItemPredicate(item_object)
                               THEN SetItem(@, item_key, p) ELSE @,
                      !.invoked = IF g.called THEN @ \cup {item_key} ELSE @,
                      !.ret = IF g.called /\ g.raised = "none"
                              THEN SetItem(@, item_key, m.returned) ELSE @]
         IN
         /\ cache' = [cache EXCEPT ![owner] = g.store]
         /\ invocations' = IF g.called /\ ItemCache(item_object)
                           THEN [invocations EXCEPT ![i][item_key] = @ + 1]
                           ELSE invocations
         /\ IF g.raised # "none"
            THEN \* except (PredicateFailure, IgnoreError): continue
                 /\ ev' = [ev EXCEPT ![i] = e0]
                 /\ UNCHANGED <<phase, firstGet>>
            ELSE LET merged == Merge(ev[i].item_dict, item_key, item_object,
                                     g.value)
                     e1 == [e0 EXCEPT !.got = SetItem(@, item_key, g.value)]
                 IN
                 /\ firstGet' =
                      IF ItemCache(item_object)
                         /\ item_key \notin DOMAIN firstGet[i]
                      THEN [firstGet EXCEPT ![i] =
                              SetItem(@, item_key,
                                      [value |-> g.value,
                                       fresh |-> g.called,
                                       calls |-> invocations'[i][item_key]])]
                      ELSE firstGet
                 /\ IF merged.raised # "none"
                    THEN \* ValueError leaves evaluate, and __init__ with it
                         /\ ev' = [ev EXCEPT ![i] = [e1 EXCEPT !.pc = "raised"]]
                         /\ phase' = IF ev[i].ctor
                                     THEN [phase EXCEPT ![i] = "failed"]
                                     ELSE phase
                    ELSE /\ ev' = [ev EXCEPT ![i] =
                               [e1 EXCEPT
                                  !.item_dict = merged.item_dict,
                                  !.origin =
                                    Update(@,
                                      [k \in IF item_object.concat
                                             THEN DOMAIN g.value
                                             ELSE {item_key} |-> item_key])]]
                         /\ UNCHANGED phase
  /\ UNCHANGED <<classes, data, evals>>
  /\ UNCHANGED <<objVars, metaVars, dictVars>>

\* The loop is over: evaluate returns item_dict, and InfoDict.__init__
\* updates the instance with it.
EvaluateReturn(i) ==
  /\ ev[i].pc = "run"
  /\ ev[i].todo = {}
  /\ ev' = [ev EXCEPT ![i].pc = "returned"]
  /\ IF ev[i].ctor
     THEN /\ data' = [data EXCEPT ![i] = Update(@, ev[i].item_dict)]
          /\ phase' = [phase EXCEPT ![i] = "live"]
     ELSE UNCHANGED <<data, phase>>
  /\ UNCHANGED <<classes, cache, evals, invocations, firstGet>>
  /\ UNCHANGED <<objVars, metaVars, dictVars>>

\* The parts of the state that a specification leaves alone
NoInstances ==
  /\ phase = EmptyDict
  /\ data = EmptyDict
  /\ cache = EmptyDict
  /\ ev = EmptyDict
  /\ evals = EmptyDict
  /\ invocations = EmptyDict
  /\ firstGet = EmptyDict

NoObjects == objs = EmptyDict /\ lastSet = [obj |-> ""]

NoRegistration ==
  /\ lastCreate = [name |-> ""]
  /\ lastReg = [klass |-> ""]
  /\ firstReg = EmptyDict

NoArithmetic ==
  /\ dicta = [type |-> "", items |-> EmptyDict]
  /\ dictb = [type |-> "", items |-> EmptyDict]
  /\ sum = [type |-> "", items |-> EmptyDict]

\* The state once class K exists, before any of insts is constructed.
InitWith(insts, bodies) ==
  /\ NoObjects /\ NoRegistration /\ NoArithmetic
  /\ \E S \in bodies :
     \E body \in Orders(S) :
       classes = [c \in {"InfoDict", K} |->
                    IF c = K
                    THEN InfoDictMeta([d \in {"InfoDict"} |-> InfoDictClass],
                                      K, <<"InfoDict">>, body).klass
                    ELSE InfoDictClass]
  /\ phase = [i \in insts |-> "unborn"]
  /\ data = [i \in insts |-> EmptyDict]
  /\ cache = [i \in insts |-> NoCacheStore]
  /\ ev = [i \in insts |-> NoEvaluate]
  /\ evals = [i \in insts |-> 0]
  /\ invocations =
       [i \in insts |->
          [k \in {c \in DOMAIN Registry : ItemCache(Registry[c])} |-> 0]]
  /\ firstGet = [i \in insts |-> EmptyDict]

\* One instance of K
Init == InitWith({1}, ClassBodies)

Next ==
  \/ \E i \in DOMAIN phase : Construct(i)
  \/ \E i \in DOMAIN phase : Evaluate(i)
  \/ \E i \in DOMAIN phase : EvaluateItem(i)
  \/ \E i \in DOMAIN phase : EvaluateReturn(i)

Spec == Init /\ [][Next]_vars

\* Two instances of K, a class that tags one method, with cache=True
InitPair ==
  InitWith({1, 2},
           {S \in ClassBodies :
              /\ Cardinality(S) = 1
              /\ \A f \in S : info_attribute_options(FunctionType(K, f)).cache})

SpecPair == InitPair /\ [][Next]_vars

\* ------------------------------------------------------------------ claims
Instances == DOMAIN phase

\* The constructor of instance i has returned, and the record of the
\* evaluate call it made is still at hand.
Constructed(i) == phase[i] = "live" /\ ev[i].ctor /\ ev[i].pc = "returned"

\* The keys a concat item tagged on func passes on from dictionary d, by
\* the options the method was tagged with.
PassedOn(func, d) ==
  LET concat == info_attribute_options(func).concat
  IN  {k \in DOMAIN d : ~(k \in concat.exclude /\ k \notin concat.include)}

\* The concat item under key ck was evaluated in the running or last call
\* on i, its method was called and returned, and its value was merged.
ConcatMerged(i, ck) ==
  /\ ck \in DOMAIN Registry
  /\ Registry[ck].concat
  /\ ck \in DOMAIN ev[i].ret
  /\ ~(ev[i].pc = "raised" /\ ev[i].last = ck)

\* C1: once the constructor of an instance has returned, every registered
\* simple item whose predicate passed and whose tagged method returned has
\* its key in the instance, mapped to the value the method returned
\* (marked safe when the item is tagged marksafe), also when the key was
\* among the constructor's arguments or came from a concat item as well.
C1_SimpleItemsPopulated ==
  \A i \in Instances :
    Constructed(i) =>
      \A item_key \in DOMAIN Registry :
        (~Registry[item_key].concat /\ item_key \in DOMAIN ev[i].ret) =>
          /\ item_key \in DOMAIN data[i]
          /\ data[i][item_key] =
               [val |-> ev[i].ret[item_key].val,
                safe |-> info_attribute_options(Registry[item_key].func).marksafe]

\* An instance constructed with a=1 whose class has a simple item under a
\* and a concat item that delivered a too, and the simple item's method
\* returned something else than 1.
C1_Witness ==
  \E i \in Instances :
    /\ Constructed(i)
    /\ "a" \in DOMAIN ev[i].args
    /\ "a" \in DOMAIN ev[i].ret
    /\ ev[i].ret["a"].val # ev[i].args["a"].val
    /\ \E ck \in DOMAIN ev[i].got :
         Registry[ck].concat /\ "a" \in DOMAIN ev[i].got[ck]

\* C2: a concat item whose method returned d puts into item_dict exactly
\* the entries k -> d[k] for the keys k of d that are not (in exclude and
\* absent from include), and nothing under its own registry key.  Right
\* after the merge these are the entries that stem from it; later they
\* can only be replaced by a simple item registered under the same key.
C2_ConcatContribution ==
  \A i \in Instances :
    \A ck \in DOMAIN Registry :
      ConcatMerged(i, ck) =>
        LET d == ev[i].ret[ck]
            passed == PassedOn(Registry[ck].func, d)
            from == {k \in DOMAIN ev[i].origin : ev[i].origin[k] = ck}
        IN  /\ ck \notin DOMAIN ev[i].item_dict
            /\ from \subseteq passed
            /\ \A k \in from : ev[i].item_dict[k] = d[k]
            /\ \A k \in passed :
                 /\ k \in DOMAIN ev[i].item_dict
                 /\ k \in from \/ ev[i].origin[k] = k
            /\ ev[i].last = ck => from = passed

\* A concat item was merged last whose method returned a dictionary with a
\* key that is passed on and a key that is excluded.
C2_Witness ==
  \E i \in Instances :
    \E ck \in DOMAIN Registry :
      /\ ConcatMerged(i, ck)
      /\ ev[i].last = ck
      /\ LET d == ev[i].ret[ck]
         IN  /\ PassedOn(Registry[ck].func, d) # {}
             /\ PassedOn(Registry[ck].func, d) # DOMAIN d

\* C3: once getvalue has returned a value for a cached item on an
\* instance, the tagged method is not called again for that instance and
\* every later getvalue of the item on it returns that value.
C3_CachedValueKept ==
  \A i \in Instances :
    \A item_key \in DOMAIN firstGet[i] :
      /\ invocations[i][item_key] = firstGet[i][item_key].calls
      /\ item_key \in DOMAIN ev[i].got =>
           ev[i].got[item_key] = firstGet[i][item_key].value

\* A later evaluate call got the value of a cached item without calling
\* its method.
C3_Witness ==
  \E i \in Instances :
    \E item_key \in DOMAIN firstGet[i] :
      /\ ~ev[i].ctor
      /\ item_key \in DOMAIN ev[i].got
      /\ item_key \notin ev[i].invoked

\* C4: the cache is per instance.  The first getvalue of a cached item on
\* an instance calls the tagged method with that instance, and the cache
\* of an instance holds nothing but what getvalue returned for it.
C4_CachePerInstance ==
  \A i \in Instances :
    /\ \A item_key \in DOMAIN firstGet[i] :
         /\ firstGet[i][item_key].fresh
         /\ firstGet[i][item_key].calls >= 1
    /\ \A item_key \in DOMAIN Registry :
         Registry[item_key].func \in DOMAIN cache[i].items =>
           /\ item_key \in DOMAIN firstGet[i]
           /\ cache[i].items[Registry[item_key].func] =
                firstGet[i][item_key].value

\* Two instances hold different values for the same cached item.
C4_Witness ==
  \E i, j \in Instances :
    \E item_key \in (DOMAIN firstGet[i]) \cap (DOMAIN firstGet[j]) :
      /\ i # j
      /\ firstGet[i][item_key].value # firstGet[j][item_key].value
      /\ Registry[item_key].func \in DOMAIN cache[i].items
      /\ Registry[item_key].func \in DOMAIN cache[j].items

\* C5: when the predicate of an item answers false the tagged method is
\* not called and the item puts nothing into the result, also when a
\* value of the item is in the instance's cache; and the loop goes on:
\* when evaluate returns every registered item has been handled.
C5_PredicateGates ==
  \A i \in Instances :
    /\ \A item_key \in DOMAIN ev[i].pred :
         ~ev[i].pred[item_key] =>
           /\ item_key \notin ev[i].invoked
           /\ item_key \notin DOMAIN ev[i].got
           /\ \A k \in DOMAIN ev[i].origin : ev[i].origin[k] # item_key
    /\ ev[i].pc = "returned" =>
         \A item_key \in DOMAIN Registry :
           \/ item_key \in DOMAIN ev[i].pred /\ ~ev[i].pred[item_key]
           \/ item_key \in ev[i].invoked
           \/ item_key \in DOMAIN ev[i].got

\* evaluate returned a result with an entry of another item although the
\* predicate of an item with a cached value had answered false.
C5_Witness ==
  \E i \in Instances :
    \E item_key \in DOMAIN ev[i].pred :
      /\ ev[i].pc = "returned"
      /\ ~ev[i].pred[item_key]
      /\ Registry[item_key].func \in DOMAIN cache[i].items
      /\ ev[i].item_dict # EmptyDict

\* ------------------------------------------------------------- freezing
\* The InfoDict instance of this part and the InstanceInfoStore that its
\* info_store attribute creates.
Infos == {"d1"}
StoreOf(d) == "s1"
Stores == {StoreOf(d) : d \in Infos}

NoObject ==
  [cls |-> "", constructed |-> FALSE, init_raised |-> FALSE,
   attrs |-> EmptyDict]

\* getattr(self, '_frozen', False): the attribute of the instance, else
\* that of the class, which FrozenMeta.__init__ sets to False.
IsFrozen(obj) ==
  IF "_frozen" \in DOMAIN obj.attrs THEN obj.attrs["_frozen"] ELSE FALSE

\* object.__setattr__
object_setattr(obj, key, value) ==
  [raised |-> "none", obj |-> [obj EXCEPT !.attrs = SetItem(@, key, value)]]

\* FrozenMeta.setattr: the classes of this model that have it derive from
\* object directly, so the super call is object.__setattr__.
FrozenMeta_setattr(obj, key, value) ==
  IF IsFrozen(obj)
  THEN [raised |-> "RuntimeError", obj |-> obj]
  ELSE object_setattr(obj, key, value)

\* obj.key = value: the __setattr__ that the class of obj shows, which is
\* FrozenMeta.setattr where a class put it into its dct and
\* object.__setattr__ otherwise.
SetAttribute(classes_, obj, key, value) ==
  IF Definer(classes_, obj.cls, "__setattr__") # ""
  THEN FrozenMeta_setattr(obj, key, value)
  ELSE object_setattr(obj, key, value)

\* The end of FrozenMeta.__call__: instance._frozen = True
Freeze(classes_, obj) ==
  LET r == SetAttribute(classes_, obj, "_frozen", TRUE)
  IN  [r.obj EXCEPT !.constructed = TRUE,
                    !.init_raised = obj.init_raised \/ r.raised # "none"]

\* InstanceInfoStore(instance, registered_items): __init__ assigns
\* _instance and _registered_items, and FrozenMeta.__call__ freezes.
\* registered_items tells whether the registry passed is empty: the
\* attribute is then bound to a new dictionary.
NewInstanceInfoStore(classes_, instance, registered_items) ==
  LET o0 == [NoObject EXCEPT !.cls = "InstanceInfoStore"]
      r1 == SetAttribute(classes_, o0, "_instance", instance)
      r2 == SetAttribute(classes_, r1.obj, "_registered_items",
                         IF registered_items = EmptyRegistry
                         THEN "a new dict" ELSE "the registry of K")
  IN  Freeze(classes_,
             [r2.obj EXCEPT !.init_raised =
                r1.raised # "none" \/ r2.raised # "none"])

\* K(): InfoDict.__init__ reads self.info_store, which creates the
\* InstanceInfoStore and binds it to instance._instance_info_store, and
\* FrozenMeta.__call__ freezes the instance.
ConstructInfoDict(d) ==
  /\ ~objs[d].constructed
  /\ LET store == NewInstanceInfoStore(classes, d, Registry)
         o0 == [NoObject EXCEPT !.cls = K]
         r1 == SetAttribute(classes, o0, "_instance_info_store", StoreOf(d))
     IN  objs' = [objs EXCEPT
                    ![StoreOf(d)] = store,
                    ![d] = Freeze(classes,
                                  [r1.obj EXCEPT !.init_raised =
                                     r1.raised # "none"])]
  /\ UNCHANGED <<classes, lastSet, evalVars, metaVars, dictVars>>

\* The attributes assigned from outside and the values given to them.
AttrNames == {"_instance", "_registered_items", "_frozen", "note"}
AttrValues(key) == IF key = "_frozen" THEN BOOLEAN ELSE {"v1", "v2"}

\* o.key = value on a constructed object
Assign(o) ==
  /\ objs[o].constructed
  /\ \E key \in AttrNames :
     \E value \in AttrValues(key) :
       LET r == SetAttribute(classes, objs[o], key, value)
       IN  /\ objs' = [objs EXCEPT ![o] = r.obj]
           /\ lastSet' = [obj |-> o, key |-> key, value |-> value,
                          raised |-> r.raised, before |-> objs[o].attrs]
  /\ UNCHANGED <<classes, evalVars, metaVars, dictVars>>

\* Class K exists, with no tagged method or with one, and class
\* InstanceInfoStore; no object is constructed.
InitFrozen ==
  /\ \E body \in {<< >>, <<"m1">>} :
       classes = [c \in {"InfoDict", K, "InstanceInfoStore"} |->
                    CASE c = K ->
                           InfoDictMeta([d \in {"InfoDict"} |-> InfoDictClass],
                                        K, <<"InfoDict">>, body).klass
                      [] c = "InfoDict" -> InfoDictClass
                      [] c = "InstanceInfoStore" -> InstanceInfoStoreClass]
  /\ objs = [o \in Infos \cup Stores |-> NoObject]
  /\ lastSet = [obj |-> ""]
  /\ NoInstances /\ NoRegistration /\ NoArithmetic

NextFrozen ==
  \/ \E d \in Infos : ConstructInfoDict(d)
  \/ \E o \in Infos \cup Stores : Assign(o)

SpecFrozen == InitFrozen /\ [][NextFrozen]_vars

\* C6: the assignments that InstanceInfoStore.__init__ makes succeed; once
\* the store is constructed every attribute assignment on it raises
\* RuntimeError and leaves its attributes, instance and registered_items
\* among them, as they were.
C6_StoreFrozen ==
  /\ \A d \in Infos :
       objs[StoreOf(d)].constructed =>
         /\ ~objs[StoreOf(d)].init_raised
         /\ {"_instance", "_registered_items"}
              \subseteq DOMAIN objs[StoreOf(d)].attrs
         /\ objs[StoreOf(d)].attrs["_instance"] = d
         /\ objs[StoreOf(d)].attrs["_registered_items"] =
              IF Registry = EmptyRegistry THEN "a new dict"
              ELSE "the registry of K"
  /\ lastSet.obj \in Stores =>
       /\ lastSet.raised = "RuntimeError"
       /\ objs[lastSet.obj].attrs = lastSet.before

\* An assignment to _instance was tried on a constructed store.
C6_Witness ==
  /\ lastSet.obj \in Stores
  /\ lastSet.key = "_instance"
  /\ lastSet.raised = "RuntimeError"

\* C10: attribute assignment on a constructed instance of an InfoDict
\* subclass raises RuntimeError.
C10_InfoDictFrozen ==
  lastSet.obj \in Infos => lastSet.raised = "RuntimeError"

\* ---------------------------------------------------------- registration
\* The function objects handed to register: each tagged method as defined
\* in the body of K and as defined in another class L.
RegFuncs == {FunctionType(o, n) : o \in {K, "L"}, n \in Funcs}

\* K.info_store.register(func)
Register(func) ==
  LET r == register(Registry, func)
      info_item == get_instance(func)
  IN  /\ classes' = [classes EXCEPT ![K].info_store = r.registered_items]
      /\ lastReg' = [klass |-> K, func |-> func, raised |-> r.raised,
                     before |-> Registry]
      /\ firstReg' =
           IF info_item.raised = "none"
              /\ ItemKey(info_item) \notin DOMAIN firstReg[K]
           THEN [firstReg EXCEPT ![K] =
                   SetItem(@, ItemKey(info_item), info_item)]
           ELSE firstReg
      /\ UNCHANGED <<lastCreate, evalVars, objVars, dictVars>>

\* Class K exists and tags nothing: its registry is empty.
InitRegister ==
  /\ classes = [c \in {"InfoDict", K} |->
                  IF c = K
                  THEN InfoDictMeta([d \in {"InfoDict"} |-> InfoDictClass],
                                    K, <<"InfoDict">>, << >>).klass
                  ELSE InfoDictClass]
  /\ lastCreate = [name |-> ""]
  /\ lastReg = [klass |-> ""]
  /\ firstReg = [c \in {K} |-> EmptyRegistry]
  /\ NoInstances /\ NoObjects /\ NoArithmetic

NextRegister == \E func \in RegFuncs : Register(func)

SpecRegister == InitRegister /\ [][NextRegister]_vars

\* C7: register of a function whose item key is in the registry raises
\* ValueError and leaves the registry as it was; otherwise it adds the
\* item under its key and changes no other entry.  So every key maps to
\* the first item registered under it.
C7_RegisterOnce ==
  /\ lastReg.klass # "" =>
       LET info_item == get_instance(lastReg.func)
           key == ItemKey(info_item)
       IN  info_item.raised = "none" =>
             IF key \in DOMAIN lastReg.before
             THEN /\ lastReg.raised = "ValueError"
                  /\ Registry = lastReg.before
             ELSE /\ lastReg.raised = "none"
                  /\ DOMAIN Registry = (DOMAIN lastReg.before) \cup {key}
                  /\ Registry[key] = info_item
                  /\ \A k \in DOMAIN lastReg.before :
                       Registry[k] = lastReg.before[k]
  /\ \A c \in DOMAIN firstReg :
       \A key \in DOMAIN firstReg[c] :
         /\ key \in DOMAIN classes[c].info_store
         /\ classes[c].info_store[key] = firstReg[c][key]

\* register was refused for a function whose key another function holds.
C7_Witness ==
  /\ lastReg.klass # ""
  /\ lastReg.raised = "ValueError"
  /\ LET info_item == get_instance(lastReg.func)
     IN  Registry[ItemKey(info_item)].func # lastReg.func

\* ---------------------------------------------------------- class creation
\* The names given to the classes created, in this order.
ClassNames == <<"A", "B", "C", "D">>

\* The class bodies: no tagged method, or one of m1, m2, c1.
MetaBodies == {<< >>, <<"m1">>, <<"m2">>, <<"c1">>}

\* klass or one of the classes it derives from
RECURSIVE Ancestors(_, _)
Ancestors(classes_, klass) ==
  {klass} \cup UNION {Ancestors(classes_, classes_[klass].bases[i]) :
                        i \in DOMAIN classes_[klass].bases}

\* The base lists a class statement can name: InfoDict, a class created
\* before, or two of them of which the first does not come above the
\* second (type.__new__ finds no method resolution order otherwise).
BaseLists(classes_) ==
  LET made == (DOMAIN classes_) \ {"InfoDict"}
  IN  {<<"InfoDict">>} \cup {<<b>> : b \in made}
        \cup {p \in made \X made :
                p[1] # p[2] /\ p[1] \notin Ancestors(classes_, p[2])}

\* class name(bases): body, with metaclass InfoDictMeta.  When __init__
\* raises the class statement fails and the name stays unbound.
CreateClass(bases, body) ==
  /\ \E n \in DOMAIN ClassNames :
       /\ ClassNames[n] \notin DOMAIN classes
       /\ \A m \in 1..(n - 1) : ClassNames[m] \in DOMAIN classes
       /\ LET name == ClassNames[n]
              r == InfoDictMeta(classes, name, bases, body)
          IN  /\ classes' =
                   IF r.raised = "none"
                   THEN [c \in (DOMAIN classes) \cup {name} |->
                           IF c = name THEN r.klass ELSE classes[c]]
                   ELSE classes
              /\ lastCreate' = [name |-> name, bases |-> bases,
                                body |-> body, raised |-> r.raised,
                                before |-> classes]
  /\ UNCHANGED <<lastReg, firstReg, evalVars, objVars, dictVars>>

InitMeta ==
  /\ classes = [c \in {"InfoDict"} |-> InfoDictClass]
  /\ NoRegistration
  /\ NoInstances /\ NoObjects /\ NoArithmetic

NextMeta ==
  \E bases \in BaseLists(classes), body \in MetaBodies :
    CreateClass(bases, body)

SpecMeta == InitMeta /\ [][NextMeta]_vars

\* The tagged methods that the class statement recorded in lastCreate
\* defines in its body or that one of its bases shows, as (owner, name).
TaggedMethodsOf(created) ==
  {<<created.name, created.body[i]>> : i \in DOMAIN created.body}
    \cup UNION {{<<Definer(created.before, created.bases[b], n), n>> :
                   n \in {f \in Funcs :
                            Definer(created.before, created.bases[b], f) # ""}} :
                 b \in DOMAIN created.bases}

\* C8: a class statement with metaclass InfoDictMeta, for any arrangement
\* of bases, gives the class a registry of its own that holds one item for
\* every tagged method defined in its body or visible on a base, and
\* leaves the registries of the bases as they were.
C8_ClassGetsRegistry ==
  lastCreate.name # "" =>
    /\ lastCreate.raised = "none"
    /\ lastCreate.name \in DOMAIN classes
    /\ {<<classes[lastCreate.name].info_store[k].func.owner,
          classes[lastCreate.name].info_store[k].func.name>> :
          k \in DOMAIN classes[lastCreate.name].info_store}
         = TaggedMethodsOf(lastCreate)
    /\ \A c \in DOMAIN lastCreate.before : classes[c] = lastCreate.before[c]

\* ------------------------------------------------------- ConcatableDict
\* join_dicts as it would be if the left-hand operand won.
join_dicts_left_wins(a, b) ==
  [new_dict |-> [type |-> "ConcatableDict", items |-> Update(b.items, a.items)],
   dicta |-> a, dictb |-> b]

\* ConcatableDict.join_dicts: the new dictionary, a copy of dicta updated
\* with dictb, and the operands as the call leaves them.
join_dicts(a, b) ==
  [new_dict |-> [type |-> "ConcatableDict", items |-> Update(a.items, b.items)],
   dicta |-> a, dictb |-> b]

\* ConcatableDict.__add__
__add__(self, other) == join_dicts(self, other)

\* ConcatableDict.__radd__: other is the left-hand operand.
__radd__(self, other) == join_dicts(other, self)

\* dicta + dictb with a ConcatableDict on the left: dicta.__add__(dictb)
Add ==
  /\ sum.type = ""
  /\ dicta.type = "ConcatableDict"
  /\ LET r == __add__(dicta, dictb)
     IN  /\ sum' = [type |-> r.new_dict.type, items |-> r.new_dict.items,
                    left |-> dicta, right |-> dictb]
         /\ dicta' = r.dicta
         /\ dictb' = r.dictb
  /\ UNCHANGED <<classes, evalVars, objVars, metaVars>>

\* dicta + dictb with a plain dict on the left, which has no __add__:
\* dictb.__radd__(dicta)
RAdd ==
  /\ sum.type = ""
  /\ dicta.type = "dict"
  /\ dictb.type = "ConcatableDict"
  /\ LET r == __radd__(dictb, dicta)
     IN  /\ sum' = [type |-> r.new_dict.type, items |-> r.new_dict.items,
                    left |-> dicta, right |-> dictb]
         /\ dicta' = r.dicta
         /\ dictb' = r.dictb
  /\ UNCHANGED <<classes, evalVars, objVars, metaVars>>

\* Two dictionaries, at least one of them a ConcatableDict
InitDict ==
  /\ \E ta, tb \in {"dict", "ConcatableDict"} :
     \E a, b \in Dicts :
       /\ "ConcatableDict" \in {ta, tb}
       /\ dicta = [type |-> ta, items |-> a]
       /\ dictb = [type |-> tb, items |-> b]
  /\ sum = [type |-> "", items |-> EmptyDict]
  /\ classes = [c \in {"InfoDict"} |-> InfoDictClass]
  /\ NoInstances /\ NoObjects /\ NoRegistration

NextDict == Add \/ RAdd

SpecDict == InitDict /\ [][NextDict]_vars

Contributed(i, item_key) ==
  IF item_key \notin DOMAIN ev[i].got THEN {}
  ELSE IF Registry[item_key].concat THEN DOMAIN ev[i].got[item_key]
  ELSE {item_key}

\* C11: evaluate does not return when the keys a concat item contributed
\* overlap the keys another evaluated item contributed, in whatever order
\* the registered items were iterated: it raises ValueError, and no entry
\* of the returned dictionary has replaced another item's entry.
C11_OverlapRaises ==
  \A i \in Instances :
    ev[i].pc = "returned" =>
      \A k1 \in DOMAIN Registry :
        \A k2 \in DOMAIN Registry \ {k1} :
          Registry[k1].concat =>
            Contributed(i, k1) \cap Contributed(i, k2) = {}

====
